---- MODULE Spec2Model ----
(***************************************************************************)
(* CILisp evaluation core (src/cilisp.c, src/cilisp.h): construction of    *)
(* the expression tree, the symbol table, scope resolution, the sixteen    *)
(* builtins, eval and freeNode, as a state machine over a heap of          *)
(* AST_NODEs and SYMBOL_TABLE_NODEs.                                       *)
(***************************************************************************)
EXTENDS Integers, Sequences, FiniteSets

\* ------------------------------------------------------------------------
\* Bounds of the model.
\* ------------------------------------------------------------------------
\* AST_NODEs the front-end allocates in one run.
MaxNodes == 5
\* SYMBOL_TABLE_NODEs the front-end allocates in one run.
MaxSyms == 2
\* SYMBOL_TABLE_NODEs and AST_NODEs allocated in one run of the table specification.
MaxEntries == 3
MaxValues == 2
\* AST_NODEs allocated in one run of the builtin specification.
MaxOps == 4
\* Function nodes among them.
MaxCalls == 1

\* ------------------------------------------------------------------------
\* double (RET_VAL.value, cilisp.h:61).  A double is modelled as a
\* fixed-point number: [k |-> "fin", v |-> n] stands for n / Scale, results
\* are rounded toward zero to that grid and magnitudes above Huge / Scale
\* overflow to an infinity; NaN and the two infinities are values of their
\* own, with the IEEE rules of <math.h>.
\* ------------------------------------------------------------------------
Scale == 2
Huge == 20000

NaN == [k |-> "nan", v |-> 0]
PInf == [k |-> "inf", v |-> 1]
NInf == [k |-> "inf", v |-> -1]

Fin(x) == IF x > Huge THEN PInf ELSE IF x < -Huge THEN NInf ELSE [k |-> "fin", v |-> x]
\* n as a double (n a whole number), and h halves as a double
Whole(n) == Fin(n * Scale)
Halves(h) == Fin((h * Scale) \div 2)

IAbs(x) == IF x < 0 THEN -x ELSE x
ISign(x) == IF x < 0 THEN -1 ELSE IF x > 0 THEN 1 ELSE 0
\* integer division rounding toward zero
TDiv(a, b) == ISign(a) * ISign(b) * (IAbs(a) \div IAbs(b))
ISqrt(x) == CHOOSE r \in 0..x : r * r <= x /\ (r + 1) * (r + 1) > x
ICbrt(x) == CHOOSE r \in 0..x : r * r * r <= x /\ (r + 1) * (r + 1) * (r + 1) > x

IsNaN(a) == a.k = "nan"
IsInf(a) == a.k = "inf"
IsFin(a) == a.k = "fin"
DSign(a) == IF IsNaN(a) THEN 0 ELSE ISign(a.v)

\* -x
DNeg(a) == IF IsNaN(a) THEN NaN ELSE [k |-> a.k, v |-> -a.v]
\* fabs
DFabs(a) == IF IsNaN(a) THEN NaN ELSE [k |-> a.k, v |-> IAbs(a.v)]
\* x + y
DAdd(a, b) ==
    IF IsNaN(a) \/ IsNaN(b) THEN NaN
    ELSE IF IsInf(a) /\ IsInf(b) THEN (IF a.v = b.v THEN a ELSE NaN)
    ELSE IF IsInf(a) THEN a
    ELSE IF IsInf(b) THEN b
    ELSE Fin(a.v + b.v)
\* x - y
DSub(a, b) == DAdd(a, DNeg(b))
\* x * y
DMul(a, b) ==
    IF IsNaN(a) \/ IsNaN(b) THEN NaN
    ELSE IF IsInf(a) \/ IsInf(b)
         THEN (IF DSign(a) * DSign(b) = 0 THEN NaN
               ELSE IF DSign(a) * DSign(b) > 0 THEN PInf ELSE NInf)
    ELSE Fin(TDiv(a.v * b.v, Scale))
\* x / y
DDiv(a, b) ==
    IF IsNaN(a) \/ IsNaN(b) THEN NaN
    ELSE IF IsInf(a) /\ IsInf(b) THEN NaN
    ELSE IF IsInf(a) THEN (IF a.v * (IF b.v < 0 THEN -1 ELSE 1) > 0 THEN PInf ELSE NInf)
    ELSE IF IsInf(b) THEN Fin(0)
    ELSE IF b.v = 0 THEN (IF a.v = 0 THEN NaN ELSE IF a.v > 0 THEN PInf ELSE NInf)
    ELSE Fin(TDiv(a.v * Scale, b.v))
\* fmod
DFmod(a, b) ==
    IF IsNaN(a) \/ IsNaN(b) THEN NaN
    ELSE IF IsInf(a) THEN NaN
    ELSE IF IsInf(b) THEN a
    ELSE IF b.v = 0 THEN NaN
    ELSE Fin(ISign(a.v) * (IAbs(a.v) % IAbs(b.v)))
\* x < y and x > y (false when either is NaN)
DLess(a, b) ==
    IF IsNaN(a) \/ IsNaN(b) THEN FALSE
    ELSE IF IsInf(a) THEN a.v < 0 /\ ~(IsInf(b) /\ b.v < 0)
    ELSE IF IsInf(b) THEN b.v > 0
    ELSE a.v < b.v
DGreater(a, b) == DLess(b, a)
\* sqrt
DSqrt(a) ==
    IF IsNaN(a) THEN NaN
    ELSE IF a.v < 0 THEN NaN
    ELSE IF IsInf(a) THEN PInf
    ELSE Fin(ISqrt(a.v * Scale))
\* cbrt
DCbrt(a) ==
    IF IsNaN(a) \/ IsInf(a) THEN a
    ELSE Fin(ISign(a.v) * ICbrt(IAbs(a.v) * Scale * Scale))

\* a to a whole power n >= 0, by repeated squaring
RECURSIVE PowNat(_, _)
PowNat(a, n) ==
    IF n = 0 THEN Whole(1)
    ELSE IF n % 2 = 0 THEN PowNat(DMul(a, a), n \div 2)
    ELSE DMul(a, PowNat(DMul(a, a), n \div 2))
\* a to the power e / Scale for finite a and e: the whole part by repeated
\* squaring, a fractional part (a half, with Scale = 2) by the square root
PowFin(a, e) ==
    LET n == IAbs(e) \div Scale
        frac == IAbs(e) % Scale
        whole == PowNat(a, n)
        pos == IF frac = 0 THEN whole ELSE DMul(whole, DSqrt(a))
    IN  IF frac # 0 /\ a.v < 0 THEN NaN
        ELSE IF e < 0 THEN DDiv(Whole(1), pos) ELSE pos
\* pow
DPow(a, b) ==
    IF ~IsNaN(b) /\ b.v = 0 /\ IsFin(b) THEN Whole(1)
    ELSE IF a = Whole(1) THEN Whole(1)
    ELSE IF IsNaN(a) \/ IsNaN(b) THEN NaN
    ELSE IF IsInf(b)
         THEN (IF DFabs(a) = Whole(1) THEN Whole(1)
               ELSE IF DLess(DFabs(a), Whole(1)) = (b.v > 0) THEN Fin(0) ELSE PInf)
    ELSE IF IsInf(a)
         THEN (IF b.v < 0 THEN Fin(0)
               ELSE IF a.v < 0 /\ b.v % (2 * Scale) = Scale THEN NInf ELSE PInf)
    ELSE PowFin(a, b.v)
\* e, rounded to the grid
E == Halves(5)
\* exp, exp2
DExp(a) == DPow(E, a)
DExp2(a) == DPow(Whole(2), a)
\* the whole part of the logarithm of a finite x >= 1
RECURSIVE LogPos(_)
LogPos(x) == IF DLess(x, E) THEN 0 ELSE 1 + LogPos(DDiv(x, E))
\* log
DLog(a) ==
    IF IsNaN(a) THEN NaN
    ELSE IF a.v < 0 THEN NaN
    ELSE IF IsInf(a) THEN PInf
    ELSE IF a.v = 0 THEN NInf
    ELSE IF a.v >= Scale THEN Whole(LogPos(a))
    ELSE Whole(-LogPos(DDiv(Whole(1), a)))

\* ------------------------------------------------------------------------
\* The heap: AST_NODE and SYMBOL_TABLE_NODE (cilisp.h).
\* ------------------------------------------------------------------------
VARIABLES
    heap,    \* the AST_NODEs allocated so far; a pointer is an index, NULL is 0
    symtab,  \* the SYMBOL_TABLE_NODEs allocated so far
    freed,   \* the allocations handed to free(): <<kind, index>>
    held,    \* the pointers the front-end holds, the one it got last at the end
    last     \* the call the front-end made last, with what it returned and printed

vars == <<heap, symtab, freed, held, last>>

NULL == 0
\* a char* that is NULL
NoId == ""

NUM_TYPE == {"INT_TYPE", "DOUBLE_TYPE", "NO_TYPE"}
AST_NODE_TYPE == {"NUM_NODE_TYPE", "FUNC_NODE_TYPE", "SYM_NODE_TYPE", "SCOPE_NODE_TYPE"}
UnaryFuncs == {"NEG_FUNC", "ABS_FUNC", "EXP_FUNC", "EXP2_FUNC", "LOG_FUNC", "SQRT_FUNC", "CBRT_FUNC"}
BinaryFuncs == {"SUB_FUNC", "MULT_FUNC", "DIV_FUNC", "REMAINDER_FUNC", "POW_FUNC"}
VariadicFuncs == {"ADD_FUNC", "HYPOT_FUNC", "MAX_FUNC", "MIN_FUNC"}
FUNC_TYPE == UnaryFuncs \cup BinaryFuncs \cup VariadicFuncs \cup {"CUSTOM_FUNC"}

NAN_RET_VAL == [type |-> "DOUBLE_TYPE", value |-> NaN]
ZERO_RET_VAL == [type |-> "INT_TYPE", value |-> Fin(0)]

\* an AST_NODE as calloc returns it; the members of the union data are kept apart
AST_NODE ==
    [type |-> "NUM_NODE_TYPE", parent |-> NULL, symbolTable |-> NULL,
     numType |-> "INT_TYPE", value |-> Fin(0),
     func |-> "NEG_FUNC", opList |-> NULL, id |-> NoId, child |-> NULL, next |-> NULL]
\* a SYMBOL_TABLE_NODE as calloc returns it
SYMBOL_TABLE_NODE == [id |-> NoId, value |-> NULL, next |-> NULL]

Nodes(h) == 1..Len(h)
Entries(st) == 1..Len(st)

\* the nodes of the list that starts at node `list`, in order (the next chain)
RECURSIVE ListOf(_, _)
ListOf(h, list) == IF list = NULL THEN <<>> ELSE <<list>> \o ListOf(h, h[list].next)
\* the entries of the table that starts at entry `table`, in order
RECURSIVE TableOf(_, _)
TableOf(st, table) == IF table = NULL THEN <<>> ELSE <<table>> \o TableOf(st, st[table].next)
Range(s) == {s[i] : i \in 1..Len(s)}

\* setParent with the loop left out: only the head of the list gets the parent
setParentHeadOnly(h, list, parent) ==
    IF list = NULL THEN h ELSE [h EXCEPT ![list].parent = parent]
\* setParent (cilisp.c:52)
RECURSIVE setParent(_, _, _)
setParent(h, list, parent) ==
    IF list = NULL THEN h
    ELSE setParent([h EXCEPT ![list].parent = parent], h[list].next, parent)

\* findSymbol (cilisp.c:59): the loop compares id with the id of symbolTable,
\* the head, at every entry it visits, and returns the entry it is at
RECURSIVE findSymbolLoop(_, _, _, _)
findSymbolLoop(st, id, symbolTable, current) ==
    IF current = NULL THEN NULL
    ELSE IF id = st[symbolTable].id THEN current
    ELSE findSymbolLoop(st, id, symbolTable, st[current].next)
findSymbol(st, id, symbolTable) ==
    IF id = NoId THEN NULL ELSE findSymbolLoop(st, id, symbolTable, symbolTable)

\* ------------------------------------------------------------------------
\* Evaluation (cilisp.c:239-702).  A call returns
\*   [status, type, value, warn, evals]
\* status "ok": the call returned the RET_VAL {type, value}; "fatal": it
\* reached yyerror, which exits the process; "overflow": eval was entered
\* for a node whose evaluation is already on the call stack, a recursion
\* that never returns and ends when the C stack is exhausted.  warn is what
\* warning() printed, in order; evals has one record per call of eval that
\* returned, in the order of return.  (The printf of "parent is null" in
\* evalSymbolNode goes to stdout only and is not recorded.)
\* c = [h, st, u]: the heap, the symbol table nodes, and u[n], the value
\* that the uninitialised result.type of evalMin and evalMax holds when the
\* operand list starts at node n.
\* ------------------------------------------------------------------------
Ret(rv, w, ev) ==
    [status |-> "ok", type |-> rv.type, value |-> rv.value, warn |-> w, evals |-> ev]
\* the call did not return: what was printed and evaluated until then
Abort(status, w, ev) ==
    [status |-> status, type |-> "NO_TYPE", value |-> NaN, warn |-> w, evals |-> ev]
\* r, after w was printed and ev evaluated
After(w, ev, r) == [r EXCEPT !.warn = w \o @, !.evals = ev \o @]

RECURSIVE eval(_, _, _)
RECURSIVE addLoop(_, _, _, _)
RECURSIVE hypotLoop(_, _, _, _)
RECURSIVE minLoop(_, _, _, _)
RECURSIVE maxLoop(_, _, _, _)
RECURSIVE symbolLoop(_, _, _, _)

\* evalNeg (cilisp.c:239)
evalNeg(c, oplist, stack) ==
    IF oplist = NULL
    THEN Ret(NAN_RET_VAL, <<"neg called with no operands, NAN returned">>, <<>>)
    ELSE LET w == IF c.h[oplist].next # NULL
                  THEN <<"neg called with extra operands">> ELSE <<>>
             num == eval(c, oplist, stack)
         IN  IF num.status # "ok" THEN After(w, <<>>, num)
             ELSE Ret([type |-> num.type,
                       value |-> DNeg(num.value)], w \o num.warn, num.evals)

\* evalAbs (cilisp.c:276)
evalAbs(c, oplist, stack) ==
    IF oplist = NULL
    THEN Ret(NAN_RET_VAL, <<"abs called with no operands, NAN returned">>, <<>>)
    ELSE LET w == IF c.h[oplist].next # NULL
                  THEN <<"abs called with extra operands">> ELSE <<>>
             num == eval(c, oplist, stack)
         IN  IF num.status # "ok" THEN After(w, <<>>, num)
             ELSE Ret([type |-> num.type,
                       value |-> DFabs(num.value)], w \o num.warn, num.evals)

\* evalExp (cilisp.c:413)
evalExp(c, oplist, stack) ==
    IF oplist = NULL
    THEN Ret(NAN_RET_VAL, <<"exp called with no operands, NAN returned">>, <<>>)
    ELSE LET w == IF c.h[oplist].next # NULL
                  THEN <<"exp called with extra operands">> ELSE <<>>
             num == eval(c, oplist, stack)
         IN  IF num.status # "ok" THEN After(w, <<>>, num)
             ELSE Ret([type |-> "DOUBLE_TYPE",
                       value |-> DExp(num.value)], w \o num.warn, num.evals)

\* evalExp2 (cilisp.c:431)
evalExp2(c, oplist, stack) ==
    IF oplist = NULL
    THEN Ret(NAN_RET_VAL, <<"exp2 called with no operands, NAN returned">>, <<>>)
    ELSE LET w == IF c.h[oplist].next # NULL
                  THEN <<"exp2 called with extra operands">> ELSE <<>>
             num == eval(c, oplist, stack)
         IN  IF num.status # "ok" THEN After(w, <<>>, num)
             ELSE Ret([type |-> IF DLess(DExp2(num.value), Fin(0)) THEN "DOUBLE_TYPE" ELSE num.type,
                       value |-> DExp2(num.value)], w \o num.warn, num.evals)

\* evalLog (cilisp.c:482)
evalLog(c, oplist, stack) ==
    IF oplist = NULL
    THEN Ret(NAN_RET_VAL, <<"log called with no operands, NAN returned">>, <<>>)
    ELSE LET w == IF c.h[oplist].next # NULL
                  THEN <<"log called with extra operands">> ELSE <<>>
             num == eval(c, oplist, stack)
         IN  IF num.status # "ok" THEN After(w, <<>>, num)
             ELSE Ret([type |-> "DOUBLE_TYPE",
                       value |-> DLog(num.value)], w \o num.warn, num.evals)

\* evalSqrt (cilisp.c:500)
evalSqrt(c, oplist, stack) ==
    IF oplist = NULL
    THEN Ret(NAN_RET_VAL, <<"sqrt called with no operands, NAN returned">>, <<>>)
    ELSE LET w == IF c.h[oplist].next # NULL
                  THEN <<"sqrt called with extra operands">> ELSE <<>>
             num == eval(c, oplist, stack)
         IN  IF num.status # "ok" THEN After(w, <<>>, num)
             ELSE Ret([type |-> "DOUBLE_TYPE",
                       value |-> DSqrt(num.value)], w \o num.warn, num.evals)

\* evalCbrt (cilisp.c:518)
evalCbrt(c, oplist, stack) ==
    IF oplist = NULL
    THEN Ret(NAN_RET_VAL, <<"cbrt called with no operands, NAN returned">>, <<>>)
    ELSE LET w == IF c.h[oplist].next # NULL
                  THEN <<"cbrt called with extra operands">> ELSE <<>>
             num == eval(c, oplist, stack)
         IN  IF num.status # "ok" THEN After(w, <<>>, num)
             ELSE Ret([type |-> "DOUBLE_TYPE",
                       value |-> DCbrt(num.value)], w \o num.warn, num.evals)

\* evalSub promoting to Double only when both operands are Double
evalSubBothDouble(c, oplist, stack) ==
    IF oplist = NULL
    THEN Ret(ZERO_RET_VAL, <<"sub called with no operands, 0 returned">>, <<>>)
    ELSE IF c.h[oplist].next = NULL
    THEN Ret(NAN_RET_VAL, <<"sub called with 1 operand, NAN returned">>, <<>>)
    ELSE LET firstOp == eval(c, oplist, stack)
             secondOP == eval(c, c.h[oplist].next, stack)
             w == IF c.h[c.h[oplist].next].next # NULL
                  THEN <<"sub called with too many operands, ignoring extra">> ELSE <<>>
         IN  IF firstOp.status # "ok" THEN firstOp
             ELSE IF secondOP.status # "ok" THEN After(firstOp.warn, firstOp.evals, secondOP)
             ELSE Ret([type |-> IF firstOp.type = "DOUBLE_TYPE" /\ secondOP.type = "DOUBLE_TYPE"
                                THEN "DOUBLE_TYPE" ELSE "INT_TYPE",
                       value |-> DSub(firstOp.value, secondOP.value)],
                      firstOp.warn \o secondOP.warn \o w, firstOp.evals \o secondOP.evals)
\* evalSub (cilisp.c:297)
evalSub(c, oplist, stack) ==
    IF oplist = NULL
    THEN Ret(ZERO_RET_VAL, <<"sub called with no operands, 0 returned">>, <<>>)
    ELSE IF c.h[oplist].next = NULL
    THEN Ret(NAN_RET_VAL, <<"sub called with 1 operand, NAN returned">>, <<>>)
    ELSE LET firstOp == eval(c, oplist, stack)
             secondOP == eval(c, c.h[oplist].next, stack)
             w == IF c.h[c.h[oplist].next].next # NULL
                  THEN <<"sub called with too many operands, ignoring extra">> ELSE <<>>
         IN  IF firstOp.status # "ok" THEN firstOp
             ELSE IF secondOP.status # "ok" THEN After(firstOp.warn, firstOp.evals, secondOP)
             ELSE Ret([type |-> IF firstOp.type = "DOUBLE_TYPE" \/ secondOP.type = "DOUBLE_TYPE"
                                THEN "DOUBLE_TYPE" ELSE "INT_TYPE",
                       value |-> DSub(firstOp.value, secondOP.value)],
                      firstOp.warn \o secondOP.warn \o w, firstOp.evals \o secondOP.evals)

\* evalMult taking a single operand as the product
evalMultOfOne(c, oplist, stack) ==
    IF oplist = NULL
    THEN Ret(ZERO_RET_VAL, <<"mult called with no operands, 0 returned">>, <<>>)
    ELSE IF c.h[oplist].next = NULL
    THEN After(<<"mult called with 1 operand, NAN returned">>, <<>>, eval(c, oplist, stack))
    ELSE LET firstOp == eval(c, oplist, stack)
             secondOP == eval(c, c.h[oplist].next, stack)
             w == IF c.h[c.h[oplist].next].next # NULL
                  THEN <<"mult called with too many operands, ignoring extra">> ELSE <<>>
         IN  IF firstOp.status # "ok" THEN firstOp
             ELSE IF secondOP.status # "ok" THEN After(firstOp.warn, firstOp.evals, secondOP)
             ELSE Ret([type |-> IF firstOp.type = "DOUBLE_TYPE" \/ secondOP.type = "DOUBLE_TYPE"
                                THEN "DOUBLE_TYPE" ELSE "INT_TYPE",
                       value |-> DMul(firstOp.value, secondOP.value)],
                      firstOp.warn \o secondOP.warn \o w, firstOp.evals \o secondOP.evals)
\* evalMult (cilisp.c:326)
evalMult(c, oplist, stack) ==
    IF oplist = NULL
    THEN Ret(ZERO_RET_VAL, <<"mult called with no operands, 0 returned">>, <<>>)
    ELSE IF c.h[oplist].next = NULL
    THEN Ret(NAN_RET_VAL, <<"mult called with 1 operand, NAN returned">>, <<>>)
    ELSE LET firstOp == eval(c, oplist, stack)
             secondOP == eval(c, c.h[oplist].next, stack)
             w == IF c.h[c.h[oplist].next].next # NULL
                  THEN <<"mult called with too many operands, ignoring extra">> ELSE <<>>
         IN  IF firstOp.status # "ok" THEN firstOp
             ELSE IF secondOP.status # "ok" THEN After(firstOp.warn, firstOp.evals, secondOP)
             ELSE Ret([type |-> IF firstOp.type = "DOUBLE_TYPE" \/ secondOP.type = "DOUBLE_TYPE"
                                THEN "DOUBLE_TYPE" ELSE "INT_TYPE",
                       value |-> DMul(firstOp.value, secondOP.value)],
                      firstOp.warn \o secondOP.warn \o w, firstOp.evals \o secondOP.evals)

\* evalDiv evaluating its third operand as well
evalDivOfThree(c, oplist, stack) ==
    IF oplist = NULL
    THEN Ret(ZERO_RET_VAL, <<"div called with no operands, 0 returned">>, <<>>)
    ELSE IF c.h[oplist].next = NULL
    THEN Ret(NAN_RET_VAL, <<"div called with 1 operand, NAN returned">>, <<>>)
    ELSE LET firstOp == eval(c, oplist, stack)
             secondOP == eval(c, c.h[oplist].next, stack)
             third == c.h[c.h[oplist].next].next
             thirdOp == IF third # NULL THEN eval(c, third, stack) ELSE Ret(ZERO_RET_VAL, <<>>, <<>>)
             w == IF third # NULL
                  THEN <<"div called with too many operands, ignoring extra">> ELSE <<>>
         IN  IF firstOp.status # "ok" THEN firstOp
             ELSE IF secondOP.status # "ok" THEN After(firstOp.warn, firstOp.evals, secondOP)
             ELSE Ret([type |-> IF firstOp.type = "DOUBLE_TYPE" \/ secondOP.type = "DOUBLE_TYPE"
                                THEN "DOUBLE_TYPE" ELSE "INT_TYPE",
                       value |-> DDiv(firstOp.value, secondOP.value)],
                      firstOp.warn \o secondOP.warn \o thirdOp.warn \o w,
                      firstOp.evals \o secondOP.evals \o thirdOp.evals)
\* evalDiv (cilisp.c:355)
evalDiv(c, oplist, stack) ==
    IF oplist = NULL
    THEN Ret(ZERO_RET_VAL, <<"div called with no operands, 0 returned">>, <<>>)
    ELSE IF c.h[oplist].next = NULL
    THEN Ret(NAN_RET_VAL, <<"div called with 1 operand, NAN returned">>, <<>>)
    ELSE LET firstOp == eval(c, oplist, stack)
             secondOP == eval(c, c.h[oplist].next, stack)
             w == IF c.h[c.h[oplist].next].next # NULL
                  THEN <<"div called with too many operands, ignoring extra">> ELSE <<>>
         IN  IF firstOp.status # "ok" THEN firstOp
             ELSE IF secondOP.status # "ok" THEN After(firstOp.warn, firstOp.evals, secondOP)
             ELSE Ret([type |-> IF firstOp.type = "DOUBLE_TYPE" \/ secondOP.type = "DOUBLE_TYPE"
                                THEN "DOUBLE_TYPE" ELSE "INT_TYPE",
                       value |-> DDiv(firstOp.value, secondOP.value)],
                      firstOp.warn \o secondOP.warn \o w, firstOp.evals \o secondOP.evals)

\* evalRemainder (cilisp.c:384)
evalRemainder(c, oplist, stack) ==
    IF oplist = NULL
    THEN Ret(ZERO_RET_VAL, <<"remainder called with no operands, 0 returned">>, <<>>)
    ELSE IF c.h[oplist].next = NULL
    THEN Ret(NAN_RET_VAL, <<"remainder called with 1 operand, NAN returned">>, <<>>)
    ELSE LET firstOp == eval(c, oplist, stack)
             secondOP == eval(c, c.h[oplist].next, stack)
             w == IF c.h[c.h[oplist].next].next # NULL
                  THEN <<"remainder called with too many operands, ignoring extra">> ELSE <<>>
         IN  IF firstOp.status # "ok" THEN firstOp
             ELSE IF secondOP.status # "ok" THEN After(firstOp.warn, firstOp.evals, secondOP)
             ELSE Ret([type |-> IF firstOp.type = "DOUBLE_TYPE" \/ secondOP.type = "DOUBLE_TYPE"
                                THEN "DOUBLE_TYPE" ELSE "INT_TYPE",
                       value |-> DFabs(DFmod(firstOp.value, secondOP.value))],
                      firstOp.warn \o secondOP.warn \o w, firstOp.evals \o secondOP.evals)

\* evalPow (cilisp.c:452)
evalPow(c, oplist, stack) ==
    IF oplist = NULL
    THEN Ret(ZERO_RET_VAL, <<"pow called with no operands, 0 returned">>, <<>>)
    ELSE IF c.h[oplist].next = NULL
    THEN Ret(NAN_RET_VAL, <<"pow called with 1 operand, NAN returned">>, <<>>)
    ELSE LET firstOp == eval(c, oplist, stack)
             secondOP == eval(c, c.h[oplist].next, stack)
             w == IF c.h[c.h[oplist].next].next # NULL
                  THEN <<"pow called with too many operands, ignoring extra">> ELSE <<>>
         IN  IF firstOp.status # "ok" THEN firstOp
             ELSE IF secondOP.status # "ok" THEN After(firstOp.warn, firstOp.evals, secondOP)
             ELSE Ret([type |-> IF firstOp.type = "DOUBLE_TYPE" \/ secondOP.type = "DOUBLE_TYPE"
                                THEN "DOUBLE_TYPE" ELSE "INT_TYPE",
                       value |-> DPow(firstOp.value, secondOP.value)],
                      firstOp.warn \o secondOP.warn \o w, firstOp.evals \o secondOP.evals)

\* evalAdd (cilisp.c:257): the while loop, result being the running RET_VAL
addLoop(c, oplist, stack, result) ==
    IF oplist = NULL THEN result
    ELSE LET num == eval(c, oplist, stack)
         IN  IF num.status # "ok" THEN After(result.warn, result.evals, num)
             ELSE addLoop(c, c.h[oplist].next, stack,
                          Ret([type |-> num.type, value |-> DAdd(result.value, num.value)],
                              result.warn \o num.warn, result.evals \o num.evals))
\* evalAdd with the promotion rule of the binary builtins: Double if any
\* operand is Double
evalAddPromoting(c, oplist, stack) ==
    IF oplist = NULL
    THEN Ret(ZERO_RET_VAL, <<"add called with no operands, 0 returned">>, <<>>)
    ELSE LET r == addLoop(c, oplist, stack, Ret([type |-> "NO_TYPE", value |-> Fin(0)], <<>>, <<>>))
         IN  IF r.status = "ok"
                /\ \E i \in 1..Len(r.evals) : /\ r.evals[i].node \in Range(ListOf(c.h, oplist))
                                              /\ r.evals[i].type = "DOUBLE_TYPE"
             THEN [r EXCEPT !.type = "DOUBLE_TYPE"]
             ELSE r
evalAdd(c, oplist, stack) ==
    IF oplist = NULL
    THEN Ret(ZERO_RET_VAL, <<"add called with no operands, 0 returned">>, <<>>)
    ELSE addLoop(c, oplist, stack, Ret([type |-> "NO_TYPE", value |-> Fin(0)], <<>>, <<>>))

\* evalHypot (cilisp.c:536)
hypotLoop(c, oplist, stack, result) ==
    IF oplist = NULL THEN result
    ELSE LET num == eval(c, oplist, stack)
         IN  IF num.status # "ok" THEN After(result.warn, result.evals, num)
             ELSE hypotLoop(c, c.h[oplist].next, stack,
                            Ret([type |-> result.type,
                                 value |-> DAdd(result.value, DPow(num.value, Whole(2)))],
                                result.warn \o num.warn, result.evals \o num.evals))
evalHypot(c, oplist, stack) ==
    IF oplist = NULL
    THEN Ret(ZERO_RET_VAL, <<"hypot called with no operands, 0 returned">>, <<>>)
    ELSE LET result == hypotLoop(c, oplist, stack,
                                 Ret([type |-> "NO_TYPE", value |-> Fin(0)], <<>>, <<>>))
         IN  IF result.status # "ok" THEN result
             ELSE Ret([type |-> "DOUBLE_TYPE", value |-> DSqrt(result.value)],
                      result.warn, result.evals)

\* evalMin (cilisp.c:556): result.value is set from the first operand and
\* result.type is left as it was found on the stack, c.u[oplist]
minLoop(c, oplist, stack, result) ==
    IF oplist = NULL THEN result
    ELSE LET num == eval(c, oplist, stack)
         IN  IF num.status # "ok" THEN After(result.warn, result.evals, num)
             ELSE minLoop(c, c.h[oplist].next, stack,
                          Ret(IF DGreater(result.value, num.value)
                              THEN [type |-> num.type, value |-> num.value]
                              ELSE [type |-> result.type, value |-> result.value],
                              result.warn \o num.warn, result.evals \o num.evals))
evalMin(c, oplist, stack) ==
    IF oplist = NULL
    THEN Ret(ZERO_RET_VAL, <<"min called with no operands, 0 returned">>, <<>>)
    ELSE LET num == eval(c, oplist, stack)
         IN  IF num.status # "ok" THEN num
             ELSE minLoop(c, c.h[oplist].next, stack,
                          Ret([type |-> c.u[oplist], value |-> num.value], num.warn, num.evals))

\* evalMax (cilisp.c:579)
maxLoop(c, oplist, stack, result) ==
    IF oplist = NULL THEN result
    ELSE LET num == eval(c, oplist, stack)
         IN  IF num.status # "ok" THEN After(result.warn, result.evals, num)
             ELSE maxLoop(c, c.h[oplist].next, stack,
                          Ret(IF DLess(result.value, num.value)
                              THEN [type |-> num.type, value |-> num.value]
                              ELSE [type |-> result.type, value |-> result.value],
                              result.warn \o num.warn, result.evals \o num.evals))
evalMax(c, oplist, stack) ==
    IF oplist = NULL
    THEN Ret(ZERO_RET_VAL, <<"max called with no operands, 0 returned">>, <<>>)
    ELSE LET num == eval(c, oplist, stack)
         IN  IF num.status # "ok" THEN num
             ELSE maxLoop(c, c.h[oplist].next, stack,
                          Ret([type |-> c.u[oplist], value |-> num.value], num.warn, num.evals))

\* evalFuncNode (cilisp.c:602); eval never passes it a NULL node
evalFuncNode(c, node, stack) ==
    LET oplist == c.h[node].opList
        func == c.h[node].func
    IN  CASE func = "NEG_FUNC" -> evalNeg(c, oplist, stack)
          [] func = "ADD_FUNC" -> evalAdd(c, oplist, stack)
          [] func = "ABS_FUNC" -> evalAbs(c, oplist, stack)
          [] func = "SUB_FUNC" -> evalSub(c, oplist, stack)
          [] func = "MULT_FUNC" -> evalMult(c, oplist, stack)
          [] func = "DIV_FUNC" -> evalDiv(c, oplist, stack)
          [] func = "REMAINDER_FUNC" -> evalRemainder(c, oplist, stack)
          [] func = "EXP_FUNC" -> evalExp(c, oplist, stack)
          [] func = "EXP2_FUNC" -> evalExp2(c, oplist, stack)
          [] func = "POW_FUNC" -> evalPow(c, oplist, stack)
          [] func = "LOG_FUNC" -> evalLog(c, oplist, stack)
          [] func = "SQRT_FUNC" -> evalSqrt(c, oplist, stack)
          [] func = "CBRT_FUNC" -> evalCbrt(c, oplist, stack)
          [] func = "HYPOT_FUNC" -> evalHypot(c, oplist, stack)
          [] func = "MIN_FUNC" -> evalMin(c, oplist, stack)
          [] func = "MAX_FUNC" -> evalMax(c, oplist, stack)
          [] OTHER -> Ret(NAN_RET_VAL, <<>>, <<>>)

\* evalNumNode (cilisp.c:635)
evalNumNode(c, node) ==
    Ret([type |-> c.h[node].numType, value |-> c.h[node].value], <<>>, <<>>)

\* evalScope (cilisp.c:650)
evalScope(c, node, stack) == eval(c, c.h[node].child, stack)

\* the inner loop of evalSymbolNode (cilisp.c:668): the first entry of the
\* table whose id equals id, or NULL
RECURSIVE tableLoop(_, _, _)
tableLoop(st, table, id) ==
    IF table = NULL THEN NULL
    ELSE IF st[table].id = id THEN table
    ELSE tableLoop(st, st[table].next, id)
\* evalSymbolNode giving up with zero where it should give up with NaN
RECURSIVE symbolLoopZero(_, _, _, _)
symbolLoopZero(c, node, currScope, stack) ==
    IF currScope = NULL
    THEN Ret(ZERO_RET_VAL, <<"undefined symbol, nan returned">>, <<>>)
    ELSE LET table == tableLoop(c.st, c.h[currScope].symbolTable, c.h[node].id)
         IN  IF table # NULL THEN eval(c, c.st[table].value, stack)
             ELSE symbolLoopZero(c, node, c.h[currScope].parent, stack)
\* the outer loop of evalSymbolNode (cilisp.c:666)
symbolLoop(c, node, currScope, stack) ==
    IF currScope = NULL
    THEN Ret(NAN_RET_VAL, <<"undefined symbol, nan returned">>, <<>>)
    ELSE LET table == tableLoop(c.st, c.h[currScope].symbolTable, c.h[node].id)
         IN  IF table # NULL THEN eval(c, c.st[table].value, stack)
             ELSE symbolLoop(c, node, c.h[currScope].parent, stack)
\* evalSymbolNode (cilisp.c:658)
evalSymbolNode(c, node, stack) == symbolLoop(c, node, node, stack)

\* eval (cilisp.c:683)
eval(c, node, stack) ==
    IF node = NULL THEN Abort("fatal", <<>>, <<>>)
    ELSE IF node \in stack THEN Abort("overflow", <<>>, <<>>)
    ELSE LET inner == stack \cup {node}
             type == c.h[node].type
             r == CASE type = "NUM_NODE_TYPE" -> evalNumNode(c, node)
                    [] type = "FUNC_NODE_TYPE" -> evalFuncNode(c, node, inner)
                    [] type = "SCOPE_NODE_TYPE" -> evalScope(c, node, inner)
                    [] type = "SYM_NODE_TYPE" -> evalSymbolNode(c, node, inner)
                    [] OTHER -> Ret(NAN_RET_VAL, <<>>, <<>>)
         IN  IF r.status # "ok" THEN r
             ELSE [r EXCEPT !.evals = Append(@, [node |-> node, type |-> r.type, value |-> r.value])]

\* freeNode (cilisp.c:723): the allocations it hands to free()
RECURSIVE freeNode(_, _)
freeNode(h, node) ==
    IF node = NULL THEN {}
    ELSE (IF h[node].type = "FUNC_NODE_TYPE" THEN freeNode(h, h[node].opList) ELSE {})
         \cup {<<"node", node>>}

\* ------------------------------------------------------------------------
\* The front-end's calls.  The front-end is a bottom-up parser: it keeps the
\* pointers it was returned in a stack (held) and passes the most recent
\* ones to the next call.  An s_expr is a node that heads no list, an
\* s_expr_list a list head, a let_elem an entry with no successor, a
\* let_list a table head.
\* ------------------------------------------------------------------------
Names == {"x", "y"}
\* the names the table specification draws from
TableNames == {"x", "y", "z"}
\* the literals the tree specification draws from
TreeInputs ==
    {[type |-> "INT_TYPE", value |-> Whole(1)],
     [type |-> "INT_TYPE", value |-> Whole(2)]}
\* the literals the builtin specification draws from
NumInputs ==
    {[type |-> "INT_TYPE", value |-> Whole(1)],
     [type |-> "INT_TYPE", value |-> Whole(2)],
     [type |-> "DOUBLE_TYPE", value |-> Halves(7)]}
\* the function tags the tree specification draws from
TreeFuncs == {"ADD_FUNC"}

Node(n) == [k |-> "node", p |-> n]
Entry(e) == [k |-> "entry", p |-> e]
\* the i-th pointer from the end of held (0: the last), and held without its last i
Top(i) == held[Len(held) - i]
Pop(i) == SubSeq(held, 1, Len(held) - i)
HoldsNode(i) == Len(held) > i /\ Top(i).k = "node"
HoldsEntry(i) == Len(held) > i /\ Top(i).k = "entry"
\* the i-th pointer from the end is an s_expr
HoldsExpr(i) == HoldsNode(i) /\ heap[Top(i).p].next = NULL

\* The front-end is still parsing: it evaluates an expression once it has
\* parsed it and frees it after that, and each expression is a tree of its own.
Parsing == last.op \notin {"eval", "freeNode"}
\* exit(1) has not been reached and the stack has not been exhausted
Running == ~(last.op = "eval" /\ last.r.status # "ok")

\* createNumberNode (cilisp.c:110)
CreateNumberNode(inputs, max) ==
    \E in \in inputs :
        /\ Parsing /\ Len(heap) < max
        /\ heap' = Append(heap, [AST_NODE EXCEPT !.value = in.value, !.numType = in.type,
                                                 !.type = "NUM_NODE_TYPE"])
        /\ held' = Append(held, Node(Len(heap) + 1))
        /\ last' = [op |-> "createNumberNode", ret |-> Len(heap) + 1]
        /\ UNCHANGED <<symtab, freed>>

\* createSymbolNode (cilisp.c:130)
CreateSymbolNode ==
    \E id \in Names :
        /\ Parsing /\ Len(heap) < MaxNodes
        /\ heap' = Append(heap, [AST_NODE EXCEPT !.type = "SYM_NODE_TYPE", !.id = id])
        /\ held' = Append(held, Node(Len(heap) + 1))
        /\ last' = [op |-> "createSymbolNode", ret |-> Len(heap) + 1]
        /\ UNCHANGED <<symtab, freed>>

\* createScopeNode (cilisp.c:148): the heap after the loop over the table
RECURSIVE scopeLoop(_, _, _, _)
scopeLoop(h, st, symbolTable, node) ==
    IF symbolTable = NULL THEN h
    ELSE scopeLoop(setParent(h, st[symbolTable].value, node), st, st[symbolTable].next, node)
createScopeNode(h, st, symbolTable, child) ==
    LET node == Len(h) + 1
        h1 == Append(h, [AST_NODE EXCEPT !.type = "SCOPE_NODE_TYPE", !.child = child,
                                         !.symbolTable = symbolTable])
    IN  setParent(scopeLoop(h1, st, symbolTable, node), child, node)
\* ( let_section s_expr ), the let_section a let_list or empty
CreateScopeNode ==
    /\ Parsing /\ Len(heap) < MaxNodes
    /\ HoldsExpr(0)
    /\ \E withTable \in {b \in BOOLEAN : b => HoldsEntry(1)} :
        LET symbolTable == IF withTable THEN Top(1).p ELSE NULL
        IN  /\ heap' = createScopeNode(heap, symtab, symbolTable, Top(0).p)
            /\ held' = Append(Pop(IF withTable THEN 2 ELSE 1), Node(Len(heap) + 1))
    /\ last' = [op |-> "createScopeNode", ret |-> Len(heap) + 1]
    /\ UNCHANGED <<symtab, freed>>

\* createSymbol (cilisp.c:173); the id it is given is never NULL, the value
\* is an s_expr or, where the specification lets it be (bound), NULL
CreateSymbol(names, max, bound) ==
    \E id \in names, withValue \in {b \in bound : b => HoldsExpr(0)} :
        /\ Parsing /\ Len(symtab) < max
        /\ symtab' = Append(symtab, [SYMBOL_TABLE_NODE EXCEPT
                                        !.id = id,
                                        !.value = IF withValue THEN Top(0).p ELSE NULL])
        /\ held' = Append(Pop(IF withValue THEN 1 ELSE 0), Entry(Len(symtab) + 1))
        /\ last' = [op |-> "createSymbol", ret |-> Len(symtab) + 1]
        /\ UNCHANGED <<heap, freed>>

\* addSymbolToTable (cilisp.c:196), new being a let_elem: what it returns and
\* what it leaves behind
addSymbolToTable(st, fr, new, table) ==
    LET old == findSymbol(st, st[new].id, table)
    IN  IF old # NULL
        THEN [ret |-> table,
              old |-> old,
              warn |-> <<"Duplicate assignment to symbol">>,
              st |-> [st EXCEPT ![old].value = st[new].value],
              fr |-> fr \cup {<<"entryId", new>>}
                        \cup (IF st[old].value = NULL THEN {} ELSE {<<"node", st[old].value>>})]
        ELSE [ret |-> new,
              old |-> old,
              warn |-> <<>>,
              st |-> [st EXCEPT ![new].next = table],
              fr |-> fr]
\* let_list let_elem, or the first let_elem added to the empty table
AddSymbolToTable ==
    /\ Parsing
    /\ HoldsEntry(0) /\ symtab[Top(0).p].next = NULL
    /\ \E withTable \in {b \in BOOLEAN : b => HoldsEntry(1)} :
        LET new == Top(0).p
            table == IF withTable THEN Top(1).p ELSE NULL
            a == addSymbolToTable(symtab, freed, new, table)
        IN  /\ symtab' = a.st
            /\ freed' = a.fr
            /\ held' = Append(Pop(IF withTable THEN 2 ELSE 1), Entry(a.ret))
            /\ last' = [op |-> "addSymbolToTable", new |-> new, table |-> table,
                        id |-> symtab[new].id, value |-> symtab[new].value,
                        before |-> TableOf(symtab, table),
                        old |-> a.old, ret |-> a.ret, warn |-> a.warn]
    /\ UNCHANGED heap

\* createFunctionNode (cilisp.c:211)
createFunctionNode(h, func, opList) ==
    setParent(Append(h, [AST_NODE EXCEPT !.type = "FUNC_NODE_TYPE",
                                         !.func = func, !.opList = opList]),
              opList, Len(h) + 1)
\* ( FUNC s_expr_list ), or ( FUNC )
CreateFunctionNode(funcs, max, calls) ==
    \E func \in funcs, withList \in {b \in BOOLEAN : b => HoldsNode(0)} :
        /\ Parsing /\ Len(heap) < max
        /\ Cardinality({n \in Nodes(heap) : heap[n].type = "FUNC_NODE_TYPE"}) < calls
        /\ heap' = createFunctionNode(heap, func, IF withList THEN Top(0).p ELSE NULL)
        /\ held' = Append(Pop(IF withList THEN 1 ELSE 0), Node(Len(heap) + 1))
        /\ last' = [op |-> "createFunctionNode", ret |-> Len(heap) + 1]
        /\ UNCHANGED <<symtab, freed>>

\* addExpressionToList (cilisp.c:233): s_expr s_expr_list
AddExpressionToList ==
    /\ Parsing
    /\ HoldsExpr(1) /\ HoldsNode(0)
    /\ heap' = [heap EXCEPT ![Top(1).p].next = Top(0).p]
    /\ held' = Pop(1)
    /\ last' = [op |-> "addExpressionToList", ret |-> Top(1).p]
    /\ UNCHANGED <<symtab, freed>>

\* the first operands of the min and max calls of the heap
MinMaxOperands(h) ==
    {h[f].opList : f \in {n \in Nodes(h) : /\ h[n].type = "FUNC_NODE_TYPE"
                                            /\ h[n].func \in {"MIN_FUNC", "MAX_FUNC"}
                                            /\ h[n].opList # NULL}}
\* what the uninitialised result.type of evalMin and evalMax may hold
Uninitialised(h) ==
    {[n \in Nodes(h) |-> IF n \in MinMaxOperands(h) THEN g[n] ELSE "NO_TYPE"] :
        g \in [MinMaxOperands(h) -> NUM_TYPE]}

\* the front-end has parsed one whole s_expr
Parsed == Len(held) = 1 /\ HoldsExpr(0)
\* eval (cilisp.c:683), called by the front-end on the s_expr it has parsed,
\* or on NULL when it has parsed nothing
Eval ==
    \E node \in {n \in Nodes(heap) : Parsed /\ Top(0).p = n}
                 \cup {n \in {NULL} : Len(held) = 0},
       u \in Uninitialised(heap) :
        /\ Parsing
        /\ last' = [op |-> "eval", node |-> node,
                    r |-> eval([h |-> heap, st |-> symtab, u |-> u], node, {})]
        /\ UNCHANGED <<heap, symtab, freed, held>>

\* freeNode (cilisp.c:723), called by the front-end on the s_expr it has parsed
FreeNode ==
    /\ Running /\ last.op # "freeNode"
    /\ Parsed
    /\ freed' = freed \cup freeNode(heap, Top(0).p)
    /\ held' = Pop(1)
    /\ last' = [op |-> "freeNode", node |-> Top(0).p, evaluated |-> last.op = "eval"]
    /\ UNCHANGED <<heap, symtab>>

Init ==
    /\ heap = <<>>
    /\ symtab = <<>>
    /\ freed = {}
    /\ held = <<>>
    /\ last = [op |-> "none"]

\* the front-end building, evaluating and freeing trees with scopes
Next ==
    \/ CreateNumberNode(TreeInputs, MaxNodes)
    \/ CreateSymbolNode
    \/ CreateSymbol(Names, MaxSyms, {TRUE})
    \/ AddSymbolToTable
    \/ CreateScopeNode
    \/ CreateFunctionNode(TreeFuncs, MaxNodes, MaxNodes)
    \/ AddExpressionToList
    \/ Eval
    \/ FreeNode

Spec == Init /\ [][Next]_vars

\* the front-end building and evaluating calls of every builtin on numbers
NextBuiltin ==
    \/ CreateNumberNode(NumInputs, MaxOps)
    \/ CreateFunctionNode(FUNC_TYPE, MaxOps, MaxCalls)
    \/ AddExpressionToList
    \/ Eval

SpecBuiltin == Init /\ [][NextBuiltin]_vars

\* the front-end building symbol tables
NextTable ==
    \/ CreateNumberNode(TreeInputs, MaxValues)
    \/ CreateSymbol(TableNames, MaxEntries, BOOLEAN)
    \/ AddSymbolToTable

SpecTable == Init /\ [][NextTable]_vars

\* the front-end building and evaluating scopes whose tables may hold
\* entries bound to NULL
NextBinding ==
    \/ CreateNumberNode(TreeInputs, MaxNodes)
    \/ CreateSymbolNode
    \/ CreateSymbol(Names, MaxSyms, BOOLEAN)
    \/ AddSymbolToTable
    \/ CreateScopeNode
    \/ Eval

SpecBinding == Init /\ [][NextBinding]_vars

\* ------------------------------------------------------------------------
\* Ownership, read from the owning links alone (opList and its next chain,
\* child, symbolTable and its entries' values), never from parent.
\* ------------------------------------------------------------------------
\* the values bound in the table of scope node m
BoundIn(h, st, m) == {st[e].value : e \in Range(TableOf(st, h[m].symbolTable))} \ {NULL}
\* the nodes node m owns directly
Children(h, st, m) ==
    CASE h[m].type = "FUNC_NODE_TYPE" -> Range(ListOf(h, h[m].opList))
      [] h[m].type = "SCOPE_NODE_TYPE" -> {h[m].child} \cup BoundIn(h, st, m)
      [] OTHER -> {}
\* the node that owns n, or NULL
Owner(h, st, n) ==
    IF \E m \in Nodes(h) : n \in Children(h, st, m)
    THEN CHOOSE m \in Nodes(h) : n \in Children(h, st, m)
    ELSE NULL
\* the entry that binds id in the table of node m, the one nearest the head
\* (the one bound last), or NULL
Binding(h, st, m, id) ==
    LET t == TableOf(st, h[m].symbolTable)
        is == {i \in 1..Len(t) : st[t[i]].id = id}
    IN  IF is = {} THEN NULL ELSE t[CHOOSE i \in is : \A j \in is : i <= j]
\* the nearest Scope node enclosing n whose table binds id, or NULL
RECURSIVE EnclosingScope(_, _, _, _)
EnclosingScope(h, st, n, id) ==
    LET m == Owner(h, st, n)
    IN  IF m = NULL THEN NULL
        ELSE IF h[m].type = "SCOPE_NODE_TYPE" /\ Binding(h, st, m, id) # NULL THEN m
        ELSE EnclosingScope(h, st, m, id)
\* the value bound to the name of Symbol node n where n stands, or NULL
BoundValue(h, st, n) ==
    LET m == EnclosingScope(h, st, n, h[n].id)
    IN  IF m = NULL THEN NULL ELSE st[Binding(h, st, m, h[n].id)].value

\* the front-end has called eval on a node and eval returned
Evaluated == last.op = "eval" /\ last.r.status = "ok"
\* the positions of the log of the last eval at which a Symbol node returned
SymbolReturns ==
    {i \in 1..Len(last.r.evals) : heap[last.r.evals[i].node].type = "SYM_NODE_TYPE"}

\* C1: scope resolution is innermost-first.  Whenever eval returns for a
\* Symbol node that some enclosing Scope node binds, the call that returned
\* just before it is the evaluation of the value bound to its name in the
\* nearest such Scope node, and the Symbol node returns that very RET_VAL.
C1_InnermostFirst ==
    last.op = "eval" =>
        \A i \in SymbolReturns :
            LET ev == last.r.evals
                v == BoundValue(heap, symtab, ev[i].node)
            IN  v # NULL =>
                    /\ i > 1
                    /\ ev[i - 1].node = v
                    /\ ev[i].type = ev[i - 1].type
                    /\ ev[i].value = ev[i - 1].value
\* an outer scope binds x to 1, an inner scope binds x to 2, and a reference
\* to x inside the inner scope has returned 2
C1_Witness ==
    /\ Evaluated
    /\ \E i \in SymbolReturns :
        LET n == last.r.evals[i].node
            inner == EnclosingScope(heap, symtab, n, heap[n].id)
        IN  /\ inner # NULL
            /\ EnclosingScope(heap, symtab, inner, heap[n].id) # NULL
            /\ LET outer == EnclosingScope(heap, symtab, inner, heap[n].id)
                   v1 == symtab[Binding(heap, symtab, outer, heap[n].id)].value
               IN  /\ heap[v1].type = "NUM_NODE_TYPE" /\ heap[v1].value = Whole(1)
                   /\ last.r.evals[i].value = Whole(2)

\* the positions of the log at which a Symbol node that no enclosing scope
\* binds returned
UnboundReturns ==
    {i \in SymbolReturns : BoundValue(heap, symtab, last.r.evals[i].node) = NULL}
\* how many times s holds x
Count(s, x) == Cardinality({i \in 1..Len(s) : s[i] = x})

\* C8: a Symbol node bound in no enclosing scope evaluates to {Double, NaN}
\* with one undefined-symbol diagnostic per such evaluation, the process is
\* not aborted by it, and the call that owns the node goes on: it returns
\* later, with NaN as the sum when it is an add.
C8_UndefinedSymbol ==
    last.op = "eval" =>
        /\ \A i \in UnboundReturns :
            /\ last.r.evals[i].type = "DOUBLE_TYPE"
            /\ last.r.evals[i].value = NaN
        /\ Count(last.r.warn, "undefined symbol, nan returned") = Cardinality(UnboundReturns)
        /\ (UnboundReturns # {} => last.r.status # "fatal")
        /\ last.r.status = "ok" =>
            \A i \in UnboundReturns :
                LET f == Owner(heap, symtab, last.r.evals[i].node)
                IN  (f # NULL /\ heap[f].type = "FUNC_NODE_TYPE") =>
                        \E j \in (i + 1)..Len(last.r.evals) :
                            /\ last.r.evals[j].node = f
                            /\ (heap[f].func = "ADD_FUNC" => last.r.evals[j].value = NaN)
\* an add inside a scope has returned after one of its operands, a Symbol
\* node the scope does not bind, was evaluated
C8_Witness ==
    /\ Evaluated
    /\ heap[last.node].type = "SCOPE_NODE_TYPE" /\ heap[last.node].symbolTable # NULL
    /\ \E i \in UnboundReturns :
        LET f == Owner(heap, symtab, last.r.evals[i].node)
        IN  f # NULL /\ heap[f].type = "FUNC_NODE_TYPE" /\ heap[f].func = "ADD_FUNC"

\* what a node owns: itself, the storage of its name, its operands, its
\* child, and its table's entries with their names and their bound values
RECURSIVE Owned(_, _, _)
Owned(h, st, n) ==
    LET t == Range(TableOf(st, h[n].symbolTable))
        kids == Children(h, st, n)
        U(f) == UNION {f[k] : k \in DOMAIN f}
    IN  {<<"node", n>>}
        \cup (IF h[n].type = "SYM_NODE_TYPE" THEN {<<"nodeId", n>>} ELSE {})
        \cup {<<"entry", e>> : e \in t} \cup {<<"entryId", e>> : e \in t}
        \cup U([k \in kids |-> Owned(h, st, k)])

\* C6: freeNode, called on the root of a tree that was not evaluated, frees
\* everything the root owns.
C6_FreesEverythingOwned ==
    (last.op = "freeNode" /\ ~last.evaluated) => Owned(heap, symtab, last.node) \subseteq freed

\* ------------------------------------------------------------------------
\* The builtins, on the call the front-end evaluated last.
\* ------------------------------------------------------------------------
\* eval was called on a Function node
CallEvaluated == last.op = "eval" /\ last.node # NULL /\ heap[last.node].type = "FUNC_NODE_TYPE"
\* its tag, its operands in list order, and the nodes eval returned for, in order
Func == heap[last.node].func
Operands == ListOf(heap, heap[last.node].opList)
Returned == [i \in 1..Len(last.r.evals) |-> last.r.evals[i].node]
\* the operands eval returned for, in the order of return
IsOperand(n) == n \in Range(Operands)
OperandsReturned == SelectSeq(Returned, IsOperand)
\* the RET_VAL eval returned for node n (n was evaluated)
RetOf(n) == last.r.evals[CHOOSE i \in 1..Len(last.r.evals) : last.r.evals[i].node = n]
\* the call returned rv
Returns(rv) == last.r.status = "ok" /\ last.r.type = rv.type /\ last.r.value = rv.value

\* C4: sub, mult, div, remainder and pow with two or more operands return
\* Double if the first or the second operand evaluated to Double, and Int if
\* both evaluated to Int.
C4_BinaryPromotion ==
    (CallEvaluated /\ Func \in BinaryFuncs /\ Len(Operands) >= 2) =>
        /\ last.r.status = "ok"
        /\ Len(OperandsReturned) >= 2
        /\ LET t1 == RetOf(Operands[1]).type
               t2 == RetOf(Operands[2]).type
           IN  /\ (t1 = "DOUBLE_TYPE" \/ t2 = "DOUBLE_TYPE") => last.r.type = "DOUBLE_TYPE"
               /\ (t1 = "INT_TYPE" /\ t2 = "INT_TYPE") => last.r.type = "INT_TYPE"
\* a binary builtin has returned Double for an Int and a Double operand
C4_Witness ==
    /\ CallEvaluated /\ Func \in BinaryFuncs /\ Len(Operands) >= 2
    /\ last.r.status = "ok"
    /\ heap[Operands[1]].numType = "INT_TYPE" /\ heap[Operands[2]].numType = "DOUBLE_TYPE"
    /\ last.r.type = "DOUBLE_TYPE"

\* the position of the extremum a left-to-right scan of rets finds, from
\* position i on, cur being the position of the extremum so far
RECURSIVE ScanFrom(_, _, _, _)
ScanFrom(rets, i, cur, max) ==
    IF i > Len(rets) THEN cur
    ELSE IF (IF max THEN DLess(rets[cur].value, rets[i].value)
                    ELSE DGreater(rets[cur].value, rets[i].value))
         THEN ScanFrom(rets, i + 1, i, max)
         ELSE ScanFrom(rets, i + 1, cur, max)

\* C5: min and max return {Int, 0} for no operands, and otherwise the value
\* and the type of the operand the left-to-right scan finds as the extremum.
C5_MinMaxExtremum ==
    (CallEvaluated /\ Func \in {"MIN_FUNC", "MAX_FUNC"}) =>
        IF Len(Operands) = 0 THEN Returns(ZERO_RET_VAL)
        ELSE /\ last.r.status = "ok"
             /\ OperandsReturned = Operands
             /\ LET rets == [i \in 1..Len(Operands) |-> RetOf(Operands[i])]
                    k == ScanFrom(rets, 2, 1, Func = "MAX_FUNC")
                IN  Returns([type |-> rets[k].type, value |-> rets[k].value])

\* the sum of the values of rets, from the left
RECURSIVE SumOf(_, _)
SumOf(rets, n) == IF n = 0 THEN Fin(0) ELSE DAdd(SumOf(rets, n - 1), rets[n].value)

\* C7: add returns {Int, 0} with a diagnostic for no operands; otherwise it
\* evaluates every operand once, in list order, and returns their sum with
\* the type of the last operand.
C7_AddLastOperandType ==
    (CallEvaluated /\ Func = "ADD_FUNC") =>
        IF Len(Operands) = 0
        THEN /\ Returns(ZERO_RET_VAL)
             /\ last.r.warn = <<"add called with no operands, 0 returned">>
        ELSE /\ last.r.status = "ok"
             /\ OperandsReturned = Operands
             /\ LET rets == [i \in 1..Len(Operands) |-> RetOf(Operands[i])]
                IN  Returns([type |-> rets[Len(rets)].type, value |-> SumOf(rets, Len(rets))])
\* add has returned Int for a Double operand followed by an Int operand
C7_Witness ==
    /\ CallEvaluated /\ Func = "ADD_FUNC" /\ Len(Operands) = 3
    /\ last.r.status = "ok"
    /\ heap[Operands[1]].numType = "DOUBLE_TYPE" /\ heap[Operands[3]].numType = "INT_TYPE"
    /\ last.r.type = "INT_TYPE"
    /\ last.r.value = DAdd(DAdd(heap[Operands[1]].value, heap[Operands[2]].value),
                           heap[Operands[3]].value)

\* the most operands a builtin of fixed arity evaluates
MaxArity == IF Func \in UnaryFuncs THEN 1 ELSE 2
\* the heap with the operand list of the evaluated call cut after MaxArity operands
WithoutExtra == [heap EXCEPT ![Operands[MaxArity]].next = NULL]

\* C9: a unary builtin with more than one operand, and sub, mult, div,
\* remainder or pow with more than two, evaluates the first one (two)
\* operands once each and no other operand, prints one diagnostic more than,
\* and returns what, the same call without the extra operands does.
C9_ExtraOperandsIgnored ==
    (CallEvaluated /\ Func \in UnaryFuncs \cup BinaryFuncs /\ Len(Operands) > MaxArity) =>
        /\ last.r.status = "ok"
        /\ OperandsReturned = SubSeq(Operands, 1, MaxArity)
        /\ \E u \in Uninitialised(heap) :
            LET r == eval([h |-> WithoutExtra, st |-> symtab, u |-> u], last.node, {})
            IN  /\ Returns(r)
                /\ Len(last.r.warn) = Len(r.warn) + 1
\* div has returned for three operands
C9_Witness ==
    /\ CallEvaluated /\ last.r.status = "ok"
    /\ Func = "DIV_FUNC" /\ Len(Operands) = 3

NamesOf(st, table) == [i \in 1..Len(TableOf(st, table)) |-> st[TableOf(st, table)[i]].id]
\* the table heads the front-end holds
HeldTables == {held[i].p : i \in {j \in 1..Len(held) : held[j].k = "entry"}}
\* the first entry of the table named id, or NULL; NULL for the NULL id
FirstNamed(st, id, table) ==
    LET t == TableOf(st, table)
        is == {i \in 1..Len(t) : st[t[i]].id = id}
    IN  IF id = NoId \/ is = {} THEN NULL ELSE t[CHOOSE i \in is : \A j \in is : i <= j]

\* C3: findSymbol returns the first entry of the table whose name is the one
\* asked for, wherever it stands in the table, and NULL when there is none
\* or the name is NULL.
C3_FindSymbolFirstMatch ==
    \A table \in HeldTables \cup {NULL}, id \in TableNames \cup {NoId} :
        findSymbol(symtab, id, table) = FirstNamed(symtab, id, table)

\* C2: addSymbolToTable keeps the names of a table unique.  For a name the
\* table holds already it returns the table, leaves its entries as they are
\* but for the value of the entry of that name, which becomes the new value,
\* and prints the duplicate diagnostic once; for a new name it links the
\* entry in front and returns it.
C2_UniqueNames ==
    /\ \A table \in HeldTables :
        \A i, j \in 1..Len(NamesOf(symtab, table)) :
            NamesOf(symtab, table)[i] = NamesOf(symtab, table)[j] => i = j
    /\ last.op = "addSymbolToTable" =>
        IF \E i \in 1..Len(last.before) : symtab[last.before[i]].id = last.id
        THEN /\ last.ret = last.table
             /\ TableOf(symtab, last.ret) = last.before
             /\ \A e \in Range(last.before) : symtab[e].id = last.id => symtab[e].value = last.value
             /\ last.warn = <<"Duplicate assignment to symbol">>
        ELSE /\ last.ret = last.new
             /\ TableOf(symtab, last.ret) = <<last.new>> \o last.before
             /\ last.warn = <<>>
\* ------------------------------------------------------------------------
\* C11: a null root is the only case that aborts the process: eval, called
\* on a non-null root built by the construction operations (entries bound
\* to NULL included), never reaches yyerror.
C11_OnlyNullRootAborts ==
    (last.op = "eval" /\ last.node # NULL) => last.r.status # "fatal"

\* ------------------------------------------------------------------------
\* C12: eval terminates on every tree built by the construction operations:
\* no call of eval is entered for a node whose evaluation is still running,
\* also when a bound expression refers to symbols of the same scope chain.
C12_EvalTerminates ==
    last.op = "eval" => last.r.status # "overflow"

====
